---- MODULE Spec2Model ----
(***************************************************************************)
(* Model of disclaim() in src/disclaim.cpp: the process re-launches itself *)
(* through posix_spawnp with POSIX_SPAWN_SETEXEC, a reset signal mask,     *)
(* default signal dispositions and, where the host offers it, disclaimed   *)
(* TCC responsibility.  Every OS call is one step; each may return 0 or an *)
(* error code, and CHECK_SPAWN turns a non-zero return into                *)
(* destroy / fprintf / exit.                                               *)
(***************************************************************************)
EXTENDS Integers, Sequences, FiniteSets, TLC

\* ---- bounds of the model -------------------------------------------------
NumSignals == 2          \* signals are 1..NumSignals
MaxErr == 2              \* OS error codes are 1..MaxErr

Signals == 1..NumSignals
ErrCodes == 1..MaxErr
Results == {0} \cup ErrCodes

Dispositions == {"SIG_DFL", "SIG_IGN", "handler"}

\* argument vectors / environment blocks the process may have been started with
ArgvChoices == {<< >>, <<"prog">>, <<"prog", "-x">>}
EnvChoices == {<< >>, <<"A=1">>}

VARIABLES
  pc,            \* position inside disclaim()
  attr,          \* posix_spawnattr_t attr (line 29)
  flags,         \* short flags (line 33)
  err,           \* int err of the CHECK_SPAWN that fired (0: none)
  failedExpr,    \* #expr of the CHECK_SPAWN that fired
  stderrOut,     \* what was written to stderr
  exitStatus,    \* status passed to exit(), -1 while running
  calls,         \* library calls made so far, in order, with the value
                 \* CHECK_SPAWN saw
  spawnArgs,     \* the argument lists posix_spawnp was called with
  pid,           \* pid_t pid (line 56)
  argv,          \* *_NSGetArgv()
  environ,       \* extern char **environ
  argvAtEntry,   \* argv as it was when disclaim() was entered
  environAtEntry,\* environ as it was when disclaim() was entered
  procSigmask,   \* signal mask of the calling process
  procDisp,      \* signal dispositions of the calling process
  osAvailable,   \* __builtin_available(macOS 10.14, *)
  fnPresent,     \* responsibility_spawnattrs_setdisclaim != nullptr
  image          \* "original", or the state the relaunched image starts in

vars == <<pc, attr, flags, err, failedExpr, stderrOut, exitStatus, calls,
          spawnArgs, pid, argv, environ, argvAtEntry, environAtEntry,
          procSigmask, procDisp, osAvailable, fnPresent, image>>

Terminal == {"relaunched", "aborted", "crashed", "returned"}

\* ---- helpers translated from the source ----------------------------------

\* posix_spawnattr_t attr; (declared, not initialised)
UninitAttr ==
  [state |-> "uninit", flags |-> {}, sigmask |-> {}, sigdefault |-> {},
   disclaim |-> FALSE]

\* the object posix_spawnattr_init produces: no flags, empty sets
DefaultAttr ==
  [state |-> "init", flags |-> {}, sigmask |-> {}, sigdefault |-> {},
   disclaim |-> FALSE]

ExecFlag_NoExec == {}
\* short flags = POSIX_SPAWN_SETEXEC;
ExecFlag == {"POSIX_SPAWN_SETEXEC"}

SigEmptySet_Full == Signals
\* sigemptyset(&no_signals)
SigEmptySet == {}

\* sigfillset(&all_signals)
SigFillSet == Signals

DisclaimAvailable_OsOnly(os, fn) == os
DisclaimAvailable_Inverted(os, fn) == os /\ ~fn
\* if (__builtin_available(macOS 10.14, *)) if (responsibility_spawnattrs_setdisclaim)
DisclaimAvailable(os, fn) == os /\ fn

\* second argument of responsibility_spawnattrs_setdisclaim(&attr, 1)
DisclaimArg == 1

\* argv[0] of a NULL-terminated vector
Arg0(av) == IF Len(av) = 0 THEN "NULL" ELSE av[1]

SpawnRequest_EmptyEnv(av, env, a) ==
  [path |-> Arg0(av), file_actions |-> "nullptr", attrp |-> a,
   argv |-> av, envp |-> << >>]
\* posix_spawnp(&pid, argv[0], nullptr, &attr, argv, environ)
SpawnRequest(av, env, a) ==
  [path |-> Arg0(av), file_actions |-> "nullptr", attrp |-> a,
   argv |-> av, envp |-> env]

\* strerror(err)
StrError(e) == <<"strerror", e>>

\* fprintf(stderr, "[disclaim] %s: %s", #expr, strerror(err))
Diagnostic(expr, e) == <<"[disclaim] ", expr, ": ", StrError(e)>>

ExitStatus_One(e) == 1
\* exit(err): the low eight bits reach the parent
ExitStatus(e) == e % 256

\* if (int err = (expr)) { ... }: where control goes after a call returned r
AfterCall(r, next) == IF r # 0 THEN "fail_destroy" ELSE next

StepAfter_FlagsFirst(step) ==
  CASE step = "init" -> "setflags"
    [] step = "setflags" -> "setsigmask"
    [] step = "setsigmask" -> "setsigdefault"
    [] step = "setsigdefault" -> "disclaim"
    [] step = "setdisclaim" -> "spawn"
\* the statement order of disclaim()
StepAfter(step) ==
  CASE step = "init" -> "setsigmask"
    [] step = "setsigmask" -> "setsigdefault"
    [] step = "setsigdefault" -> "setflags"
    [] step = "setflags" -> "disclaim"
    [] step = "setdisclaim" -> "spawn"

\* what the image started by a successful POSIX_SPAWN_SETEXEC spawn sees
NewImage(req, mask, disp) ==
  [argv |-> req.argv,
   environ |-> req.envp,
   path |-> req.path,
   sigmask |-> IF "POSIX_SPAWN_SETSIGMASK" \in req.attrp.flags
                 THEN req.attrp.sigmask ELSE mask,
   disp |-> [s \in Signals |->
              IF "POSIX_SPAWN_SETSIGDEF" \in req.attrp.flags
                 /\ s \in req.attrp.sigdefault
                THEN "SIG_DFL"
                ELSE IF disp[s] = "handler" THEN "SIG_DFL" ELSE disp[s]],
   disclaimed |-> req.attrp.disclaim]

\* outcomes of posix_spawnattr_destroy(&attr): releasing an initialised
\* object succeeds; on an object that was never initialised the call reads
\* an indeterminate handle and may do nothing or bring the process down
DestroyOutcomes(a) ==
  IF a.state = "init" THEN {"released"} ELSE {"ignored", "crash"}

\* ---- initial state: entry to disclaim() ----------------------------------
Init ==
  /\ pc = "init"
  /\ attr = UninitAttr
  /\ flags = {}
  /\ err = 0
  /\ failedExpr = "none"
  /\ stderrOut = << >>
  /\ exitStatus = -1
  /\ calls = << >>
  /\ spawnArgs = << >>
  /\ pid = 0
  /\ argv \in ArgvChoices
  /\ environ \in EnvChoices
  /\ argvAtEntry = argv
  /\ environAtEntry = environ
  /\ procSigmask \in SUBSET Signals
  /\ procDisp \in [Signals -> Dispositions]
  /\ osAvailable \in BOOLEAN
  /\ fnPresent \in BOOLEAN
  /\ image = "original"

\* a call whose return value CHECK_SPAWN inspects
Call(f, r) == [fn |-> f, checked |-> TRUE, ret |-> r]

\* a call made inside CHECK_SPAWN: its result is not looked at
Unchecked(f) == [fn |-> f, checked |-> FALSE, ret |-> 0]

\* what no step of disclaim() touches
Frame ==
  UNCHANGED <<argv, environ, argvAtEntry, environAtEntry, procSigmask,
              procDisp, osAvailable, fnPresent>>

\* a CHECK_SPAWN'ed configuration call returned r
Checked(step, expr, r) ==
  /\ calls' = Append(calls, Call(step, r))
  /\ err' = r
  /\ failedExpr' = IF r # 0 THEN expr ELSE failedExpr

\* ---- the steps of disclaim() ---------------------------------------------

\* CHECK_SPAWN(posix_spawnattr_init(&attr)); short flags = POSIX_SPAWN_SETEXEC;
PosixSpawnattrInit ==
  /\ pc = "init"
  /\ \E r \in Results :
       /\ Checked("posix_spawnattr_init", "posix_spawnattr_init(&attr)", r)
       /\ attr' = IF r = 0 THEN DefaultAttr ELSE attr
       /\ flags' = IF r = 0 THEN ExecFlag ELSE flags
       /\ pc' = AfterCall(r, StepAfter("init"))
  /\ UNCHANGED <<stderrOut, exitStatus, spawnArgs, pid, image>>
  /\ Frame

\* CHECK_SPAWN(posix_spawnattr_setsigmask(&attr, &no_signals)); flags |= SETSIGMASK
PosixSpawnattrSetsigmask ==
  /\ pc = "setsigmask"
  /\ \E r \in Results :
       /\ Checked("posix_spawnattr_setsigmask",
                  "posix_spawnattr_setsigmask(&attr, &no_signals)", r)
       /\ attr' = IF r = 0 THEN [attr EXCEPT !.sigmask = SigEmptySet] ELSE attr
       /\ flags' = IF r = 0 THEN flags \cup {"POSIX_SPAWN_SETSIGMASK"} ELSE flags
       /\ pc' = AfterCall(r, StepAfter("setsigmask"))
  /\ UNCHANGED <<stderrOut, exitStatus, spawnArgs, pid, image>>
  /\ Frame

\* CHECK_SPAWN(posix_spawnattr_setsigdefault(&attr, &all_signals)); flags |= SETSIGDEF
PosixSpawnattrSetsigdefault ==
  /\ pc = "setsigdefault"
  /\ \E r \in Results :
       /\ Checked("posix_spawnattr_setsigdefault",
                  "posix_spawnattr_setsigdefault(&attr, &all_signals)", r)
       /\ attr' = IF r = 0 THEN [attr EXCEPT !.sigdefault = SigFillSet] ELSE attr
       /\ flags' = IF r = 0 THEN flags \cup {"POSIX_SPAWN_SETSIGDEF"} ELSE flags
       /\ pc' = AfterCall(r, StepAfter("setsigdefault"))
  /\ UNCHANGED <<stderrOut, exitStatus, spawnArgs, pid, image>>
  /\ Frame

\* CHECK_SPAWN(posix_spawnattr_setflags(&attr, flags));
PosixSpawnattrSetflags ==
  /\ pc = "setflags"
  /\ \E r \in Results :
       /\ Checked("posix_spawnattr_setflags",
                  "posix_spawnattr_setflags(&attr, flags)", r)
       /\ attr' = IF r = 0 THEN [attr EXCEPT !.flags = flags] ELSE attr
       /\ pc' = AfterCall(r, StepAfter("setflags"))
  /\ UNCHANGED <<flags, stderrOut, exitStatus, spawnArgs, pid, image>>
  /\ Frame

\* both availability checks pass:
\* CHECK_SPAWN(responsibility_spawnattrs_setdisclaim(&attr, 1));
SetDisclaim ==
  /\ pc = "disclaim"
  /\ DisclaimAvailable(osAvailable, fnPresent)
  /\ \E r \in Results :
       /\ Checked("responsibility_spawnattrs_setdisclaim",
                  "responsibility_spawnattrs_setdisclaim(&attr, 1)", r)
       /\ attr' = IF r = 0 THEN [attr EXCEPT !.disclaim = (DisclaimArg # 0)]
                           ELSE attr
       /\ pc' = AfterCall(r, StepAfter("setdisclaim"))
  /\ UNCHANGED <<flags, stderrOut, exitStatus, spawnArgs, pid, image>>
  /\ Frame

\* one of the availability checks fails: the block is skipped
SkipDisclaim ==
  /\ pc = "disclaim"
  /\ ~DisclaimAvailable(osAvailable, fnPresent)
  /\ pc' = "spawn"
  /\ UNCHANGED <<attr, flags, err, failedExpr, stderrOut, exitStatus, calls,
                 spawnArgs, pid, image>>
  /\ Frame

\* pid_t pid = 0; char **argv = *_NSGetArgv();
\* CHECK_SPAWN(posix_spawnp(&pid, argv[0], nullptr, &attr, argv, environ));
\* With POSIX_SPAWN_SETEXEC a successful call replaces the image and does not
\* return; without it a child is started, 0 is returned and disclaim() returns.
PosixSpawnp ==
  /\ pc = "spawn"
  /\ \E r \in Results :
       LET req == SpawnRequest(argv, environ, attr) IN
       /\ Checked("posix_spawnp",
                  "posix_spawnp(&pid, argv[0], nullptr, &attr, argv, environ)", r)
       /\ spawnArgs' = Append(spawnArgs, req)
       /\ IF r # 0
            THEN /\ pc' = "fail_destroy"
                 /\ UNCHANGED <<image, pid>>
            ELSE IF "POSIX_SPAWN_SETEXEC" \in attr.flags
              THEN /\ pc' = "relaunched"
                   /\ image' = NewImage(req, procSigmask, procDisp)
                   /\ pid' = pid
              ELSE /\ pc' = "returned"
                   /\ pid' = 1
                   /\ image' = image
  /\ UNCHANGED <<attr, flags, stderrOut, exitStatus>>
  /\ Frame

\* CHECK_SPAWN, first statement: posix_spawnattr_destroy(&attr);
CheckSpawnDestroy ==
  /\ pc = "fail_destroy"
  /\ calls' = Append(calls, Unchecked("posix_spawnattr_destroy"))
  /\ \E o \in DestroyOutcomes(attr) :
       /\ attr' = IF o = "released" THEN [attr EXCEPT !.state = "destroyed"]
                                    ELSE attr
       /\ pc' = IF o = "crash" THEN "crashed" ELSE "fail_fprintf"
  /\ UNCHANGED <<flags, err, failedExpr, stderrOut, exitStatus, spawnArgs,
                 pid, image>>
  /\ Frame

\* CHECK_SPAWN, second statement: fprintf(stderr, "[disclaim] %s: %s", ...)
CheckSpawnFprintf ==
  /\ pc = "fail_fprintf"
  /\ calls' = Append(calls, Unchecked("fprintf"))
  /\ stderrOut' = Append(stderrOut, Diagnostic(failedExpr, err))
  /\ pc' = "fail_exit"
  /\ UNCHANGED <<attr, flags, err, failedExpr, exitStatus, spawnArgs, pid,
                 image>>
  /\ Frame

\* CHECK_SPAWN, third statement: exit(err);
CheckSpawnExit ==
  /\ pc = "fail_exit"
  /\ calls' = Append(calls, Unchecked("exit"))
  /\ exitStatus' = ExitStatus(err)
  /\ pc' = "aborted"
  /\ UNCHANGED <<attr, flags, err, failedExpr, stderrOut, spawnArgs, pid,
                 image>>
  /\ Frame

Next ==
  \/ PosixSpawnattrInit
  \/ PosixSpawnattrSetsigmask
  \/ PosixSpawnattrSetsigdefault
  \/ PosixSpawnattrSetflags
  \/ SetDisclaim
  \/ SkipDisclaim
  \/ PosixSpawnp
  \/ CheckSpawnDestroy
  \/ CheckSpawnFprintf
  \/ CheckSpawnExit

Spec == Init /\ [][Next]_vars

\* the function is straight-line code: an enabled step is eventually taken
FairSpec == Spec /\ WF_vars(Next)


\* ---- vocabulary of the properties ----------------------------------------

InitExpr == "posix_spawnattr_init(&attr)"
SetsigmaskExpr == "posix_spawnattr_setsigmask(&attr, &no_signals)"
SetsigdefaultExpr == "posix_spawnattr_setsigdefault(&attr, &all_signals)"
SetflagsExpr == "posix_spawnattr_setflags(&attr, flags)"
SetdisclaimExpr == "responsibility_spawnattrs_setdisclaim(&attr, 1)"
SpawnExpr == "posix_spawnp(&pid, argv[0], nullptr, &attr, argv, environ)"

ConfigExprs == {InitExpr, SetsigmaskExpr, SetsigdefaultExpr, SetflagsExpr}

AllFlags ==
  {"POSIX_SPAWN_SETEXEC", "POSIX_SPAWN_SETSIGMASK", "POSIX_SPAWN_SETSIGDEF"}

\* positions of the calls to f in the call trace
Positions(f) == {i \in 1..Len(calls) : calls[i].fn = f}

Called(f) == Positions(f) # {}

\* the calls whose result CHECK_SPAWN inspects, in order
RECURSIVE CheckedNames(_)
CheckedNames(cs) ==
  IF cs = << >> THEN << >>
  ELSE IF Head(cs).checked THEN <<Head(cs).fn>> \o CheckedNames(Tail(cs))
       ELSE CheckedNames(Tail(cs))

IsPrefix(a, b) == Len(a) <= Len(b) /\ SubSeq(b, 1, Len(a)) = a

SeqWithDisclaim ==
  <<"posix_spawnattr_init", "posix_spawnattr_setsigmask",
    "posix_spawnattr_setsigdefault", "posix_spawnattr_setflags",
    "responsibility_spawnattrs_setdisclaim", "posix_spawnp">>

SeqWithoutDisclaim ==
  <<"posix_spawnattr_init", "posix_spawnattr_setsigmask",
    "posix_spawnattr_setsigdefault", "posix_spawnattr_setflags",
    "posix_spawnp">>

\* what follows the call that failed, once the process has ended
AfterFailure ==
  LET k == CHOOSE i \in 1..Len(calls) : calls[i].checked /\ calls[i].ret # 0
  IN [i \in 1..(Len(calls) - k) |-> calls[k + i].fn]

\* ---- C1 ------------------------------------------------------------------
\* C1: a successful invocation never returns to its caller: disclaim() never
\* reaches its closing brace, and every run in which no call reports an error
\* ends with the process image replaced.
C1_NoReturnOnSuccess ==
  /\ [](pc # "returned")
  /\ [](pc \in Terminal /\ failedExpr = "none" => pc = "relaunched")
  /\ <>(failedExpr # "none" \/ pc = "relaunched")

C1_Witness ==
  pc = "relaunched" /\ failedExpr = "none" /\ Len(calls) = 6

C3_ArgEnvPassthrough ==
  /\ argv = argvAtEntry
  /\ environ = environAtEntry
  /\ spawnArgs # << >> =>
        /\ spawnArgs[1].path = Arg0(argvAtEntry)
        /\ spawnArgs[1].file_actions = "nullptr"
        /\ spawnArgs[1].argv = argvAtEntry
        /\ spawnArgs[1].envp = environAtEntry
  /\ pc = "relaunched" =>
        image.argv = argvAtEntry /\ image.environ = environAtEntry

C3_Witness ==
  /\ pc = "relaunched"
  /\ spawnArgs # << >>
  /\ Len(argvAtEntry) = 2
  /\ Len(environAtEntry) = 1

\* ---- C4 ------------------------------------------------------------------
\* C4: the configuration handed to the spawn call holds an empty signal mask,
\* the full set of signals to reset, and exactly the three flags; so the
\* relaunched image starts with nothing blocked and every signal at default.
C4_SignalReset ==
  /\ spawnArgs # << >> =>
        /\ spawnArgs[1].attrp.sigmask = {}
        /\ spawnArgs[1].attrp.sigdefault = Signals
        /\ spawnArgs[1].attrp.flags = AllFlags
  /\ pc = "relaunched" =>
        /\ image.sigmask = {}
        /\ \A s \in Signals : image.disp[s] = "SIG_DFL"

C4_Witness ==
  /\ pc = "relaunched"
  /\ procSigmask = Signals
  /\ \E s \in Signals : procDisp[s] = "SIG_IGN"
  /\ \E s \in Signals : procDisp[s] = "handler"

\* ---- C5 ------------------------------------------------------------------
\* C5: when the extension is unavailable it is not called, nothing is
\* reported or aborted because of it, the disclaim flag stays unset, and the
\* spawn call is made with the same flags, signal sets, argv and environ.
C5_GracefulDegradation ==
  ~(osAvailable /\ fnPresent) =>
     /\ ~Called("responsibility_spawnattrs_setdisclaim")
     /\ failedExpr # SetdisclaimExpr
     /\ attr.disclaim = FALSE
     /\ pc = "spawn" => stderrOut = << >> /\ exitStatus = -1
     /\ (pc \in Terminal /\ failedExpr \notin ConfigExprs) => spawnArgs # << >>
     /\ spawnArgs # << >> =>
          spawnArgs[1] = [path |-> Arg0(argvAtEntry),
                       file_actions |-> "nullptr",
                       attrp |-> [state |-> "init", flags |-> AllFlags,
                                  sigmask |-> {}, sigdefault |-> Signals,
                                  disclaim |-> FALSE],
                       argv |-> argvAtEntry,
                       envp |-> environAtEntry]

C5_Witness ==
  pc = "relaunched" /\ osAvailable /\ ~fnPresent /\ ~image.disclaimed

\* ---- C6 ------------------------------------------------------------------
\* C6: the disclaim flag is set only when both availability checks pass, and
\* on such a host the extension was called before the spawn call, so the
\* spawn carries disclaim = true.
C6_ResponsibilityTransfer ==
  /\ attr.disclaim => osAvailable /\ fnPresent
  /\ (spawnArgs # << >> /\ osAvailable /\ fnPresent) =>
        /\ spawnArgs[1].attrp.disclaim = TRUE
        /\ \E i \in Positions("responsibility_spawnattrs_setdisclaim") :
             \A j \in Positions("posix_spawnp") : i < j

C6_Witness ==
  pc = "relaunched" /\ osAvailable /\ fnPresent /\ image.disclaimed

C8_StepOrdering ==
  /\ \/ IsPrefix(CheckedNames(calls), SeqWithDisclaim)
     \/ IsPrefix(CheckedNames(calls), SeqWithoutDisclaim)
  /\ Cardinality(Positions("posix_spawnattr_setflags")) <= 1
  /\ Cardinality(Positions("posix_spawnp")) <= 1
  /\ \A i, j \in 1..Len(calls) :
       (i < j /\ calls[i].checked /\ calls[j].checked) => calls[i].ret = 0
  /\ Called("posix_spawnattr_setflags") =>
       /\ attr.sigmask = {} /\ attr.sigdefault = Signals
       /\ flags = AllFlags

C8_Witness ==
  /\ pc = "relaunched"
  /\ CheckedNames(calls) = SeqWithDisclaim

\* ---- C9 ------------------------------------------------------------------
\* C9: when the extension call itself returns e # 0, the configuration is
\* released, a diagnostic is written, the process exits with e and the spawn
\* call is never attempted.
C9_DisclaimCallFailureFatal ==
  /\ failedExpr = SetdisclaimExpr =>
        /\ err # 0
        /\ spawnArgs = << >>
        /\ ~Called("posix_spawnp")
        /\ pc \in {"fail_destroy", "fail_fprintf", "fail_exit", "aborted"}
  /\ (pc \in Terminal /\ failedExpr = SetdisclaimExpr) =>
        /\ pc = "aborted"
        /\ attr.state = "destroyed"
        /\ stderrOut = <<Diagnostic(SetdisclaimExpr, err)>>
        /\ exitStatus = err

C9_Witness ==
  pc = "aborted" /\ failedExpr = SetdisclaimExpr /\ err = MaxErr

\* ---- C10 -----------------------------------------------------------------
\* C10: posix_spawnattr_destroy is called at most once, and only on an
\* object whose posix_spawnattr_init returned 0.
C10_DestroyOnlyInitialised ==
  /\ Cardinality(Positions("posix_spawnattr_destroy")) <= 1
  /\ Called("posix_spawnattr_destroy") =>
        \E i \in Positions("posix_spawnattr_init") : calls[i].ret = 0
====
